---- MODULE Spec2Model ----
(***************************************************************************)
(* GitHubProfileAnalyzer (src/github-profile-analyzer.py): the sequential  *)
(* pipeline generate_report -> analyze_profile -> get_user_info,           *)
(* get_user_repos, get_repo_commits, the aggregation of the fetched        *)
(* records, generate_visualizations and the text report.  The GitHub REST  *)
(* server is the environment: it answers every request with a status and   *)
(* a body of its own choice.                                               *)
(*                                                                         *)
(* Data representation.  A Python dict is a function whose DOMAIN is the   *)
(* set of keys present; None is the string "None" where the other values   *)
(* are strings and NoneDict where they are dicts.  A timestamp string      *)
(* 'YYYY-MM-DDTHH:MM:SSZ' is the tuple <<Y, M, D, h, mi, s>> of its        *)
(* numeric fields; a float is an exact fraction [num, den] in lowest       *)
(* terms.  A Counter is the sequence of its [key, count] entries in        *)
(* insertion order.                                                        *)
(***************************************************************************)
EXTENDS Integers, Sequences, FiniteSets, TLC

VARIABLES
    pc,               \* position of the single thread of control
    error,            \* kind of the exception that ended the run, or "none"
    requests,         \* every GET issued so far, in order
    resp,             \* the response to the last request: [status, body]
    repo_pages,       \* the bodies received so far from the repos endpoint
    user_info,        \* analyze_profile: user_info
    repos,            \* get_user_repos: repos / analyze_profile: repos
    page,             \* get_user_repos / get_repo_commits: page
    repo_i,           \* analyze_profile: position of the for loop in repos[:5]
    commits,          \* get_repo_commits: commits
    commit_times,     \* analyze_profile: commit_times
    commit_days,      \* analyze_profile: commit_days
    total_stars, total_forks, total_watchers,
    languages, repo_sizes, licenses,
    creation_dates, update_dates, quarters,
    repository_stats, \* the value of the 'repository_stats' sub-dict
    analysis,         \* what analyze_profile returned
    result            \* what generate_report returned

vars == <<pc, error, requests, resp, repo_pages, user_info, repos, page,
          repo_i, commits, commit_times, commit_days, total_stars,
          total_forks, total_watchers, languages, repo_sizes, licenses,
          creation_dates, update_dates, quarters, repository_stats,
          analysis, result>>

(***************************************************************************)
(* Bounds of the model and constants of the program.                       *)
(***************************************************************************)
MaxRepoPages == 2       \* non-empty repository pages the server may return
MaxPageLen == 3         \* records on one repository page
MaxCommitPages == 1     \* non-empty commit pages the server may return
MaxStatRepos == 3       \* repositories of an aggregation input
MaxHourCommits == 2     \* commits of an input ranging over all 24 hours
MaxTopCommits == 5      \* commits of an input ranging over TieHours

PerPage == 100          \* params={'page': page, 'per_page': 100}
TopRepos == 5           \* repos[:5]
EmptyRepoStatus == 409  \* response.status_code == 409
TopHours == 3           \* most_common(3)
TopLanguages == 10      \* most_common(10)
TopLicenses == 5        \* most_common(5)

\* the statuses the server answers with: success, and 4xx / 5xx failures
SuccessStatuses == {200}
FailureStatuses == {404, 500}

None == "None"
NoneDict == [is_none |-> TRUE]
IsNoneDict(d) == "is_none" \in DOMAIN d

Min(a, b) == IF a < b THEN a ELSE b

(***************************************************************************)
(* Python built-ins and library calls used by the source.                  *)
(***************************************************************************)

\* d.get(k): the value, or None when the key is absent
Get(d, k) == IF k \in DOMAIN d THEN d[k] ELSE None

\* d.get(k, {}) for a dict-valued key
GetDict(d, k) == IF k \in DOMAIN d THEN d[k] ELSE NoneDict

\* requests.Response.raise_for_status(): raises for 4xx and 5xx
RaisesForServerError(status) == status >= 500
RaisesForStatus(status) == status >= 400

\* list.extend
PrependPage(xs, ys) == ys \o xs
Extend(xs, ys) == xs \o ys

RECURSIVE SumSeq(_)
SumSeq(s) == IF s = <<>> THEN 0 ELSE s[1] + SumSeq(Tail(s))

RECURSIVE GCD(_, _)
GCD(a, b) == IF b = 0 THEN a ELSE GCD(b, a % b)

\* true division a / b (b > 0, a >= 0) as an exact fraction
Frac(a, b) == LET g == GCD(a, b) IN [num |-> a \div g, den |-> b \div g]
Zero == [num |-> 0, den |-> 1]

\* sorted(s)
RECURSIVE InsertAsc(_, _)
InsertAsc(x, s) ==
    IF s = <<>> THEN <<x>>
    ELSE IF x < s[1] THEN <<x>> \o s
    ELSE <<s[1]>> \o InsertAsc(x, Tail(s))

RECURSIVE SortAsc(_)
SortAsc(s) == IF s = <<>> THEN <<>> ELSE InsertAsc(s[1], SortAsc(Tail(s)))

\* np.mean(s) of a non-empty list
NpMean(s) == Frac(SumSeq(s), Len(s))

\* np.median(s) of a non-empty list: the middle of the sorted list, the mean
\* of the two middle values when the length is even
UnsortedMedian(s) ==
    LET n == Len(s)
    IN  IF n % 2 = 1 THEN Frac(s[(n + 1) \div 2], 1)
        ELSE Frac(s[n \div 2] + s[n \div 2 + 1], 2)
NpMedian(s) ==
    LET t == SortAsc(s)
        n == Len(t)
    IN  IF n % 2 = 1 THEN Frac(t[(n + 1) \div 2], 1)
        ELSE Frac(t[n \div 2] + t[n \div 2 + 1], 2)

\* collections.Counter: c[k] += 1 keeps the insertion order of the keys
RECURSIVE CounterAdd(_, _)
CounterAdd(c, k) ==
    IF c = <<>> THEN <<[key |-> k, count |-> 1]>>
    ELSE IF c[1].key = k
         THEN <<[key |-> k, count |-> c[1].count + 1]>> \o Tail(c)
         ELSE <<c[1]>> \o CounterAdd(Tail(c), k)

\* Counter(iterable)
RECURSIVE CounterFrom(_, _)
CounterFrom(c, s) ==
    IF s = <<>> THEN c ELSE CounterFrom(CounterAdd(c, s[1]), Tail(s))
Counter(s) == CounterFrom(<<>>, s)

\* sorted(items, key=count, reverse=True): stable, so entries of equal count
\* keep their insertion order
RECURSIVE InsertDesc(_, _)
InsertDesc(x, s) ==
    IF s = <<>> THEN <<x>>
    ELSE IF x.count > s[1].count THEN <<x>> \o s
    ELSE <<s[1]>> \o InsertDesc(x, Tail(s))

RECURSIVE SortDescFrom(_, _)
SortDescFrom(acc, s) ==
    IF s = <<>> THEN acc ELSE SortDescFrom(InsertDesc(s[1], acc), Tail(s))

Take(s, n) == SubSeq(s, 1, Min(n, Len(s)))

\* Counter.most_common(): all entries, by count descending
MostCommonAll(c) == SortDescFrom(<<>>, c)

\* Counter.most_common(n): the first n of them
InsertionOrderCommon(c, n) == Take(c, n)
MostCommon(c, n) == Take(MostCommonAll(c), n)

(***************************************************************************)
(* datetime.strptime(ts, '%Y-%m-%dT%H:%M:%SZ') and what is read off it.    *)
(***************************************************************************)
IsLeap(y) == (y % 4 = 0) /\ ((y % 100 # 0) \/ (y % 400 = 0))

DaysInMonth(y, m) ==
    IF m = 2 THEN (IF IsLeap(y) THEN 29 ELSE 28)
    ELSE IF m \in {4, 6, 9, 11} THEN 30 ELSE 31

\* strptime raises ValueError when a field is out of range
Parseable(ts) ==
    /\ ts[1] \in 1..9999
    /\ ts[2] \in 1..12
    /\ ts[3] \in 1..DaysInMonth(ts[1], ts[2])
    /\ ts[4] \in 0..23
    /\ ts[5] \in 0..59
    /\ ts[6] \in 0..61

Strptime(ts) ==
    [year |-> ts[1], month |-> ts[2], day |-> ts[3],
     hour |-> ts[4], minute |-> ts[5], second |-> ts[6]]

RECURSIVE DaysBeforeMonth(_, _)
DaysBeforeMonth(y, m) ==
    IF m = 1 THEN 0 ELSE DaysBeforeMonth(y, m - 1) + DaysInMonth(y, m - 1)

ToOrdinal(d) ==
    LET y == d.year - 1
    IN  y * 365 + y \div 4 - y \div 100 + y \div 400
        + DaysBeforeMonth(d.year, d.month) + d.day

\* datetime.weekday(): Monday is 0
Weekday(d) == (ToOrdinal(d) + 6) % 7

\* strftime('%Y-%m-%d')
StrftimeDate(d) == <<d.year, d.month, d.day>>

\* the order of datetime values: field by field
DateFields(d) == <<d.year, d.month, d.day, d.hour, d.minute, d.second>>

RECURSIVE LexLess(_, _)
LexLess(a, b) ==
    /\ a # <<>>
    /\ \/ a[1] < b[1]
       \/ a[1] = b[1] /\ LexLess(Tail(a), Tail(b))

DateLess(a, b) == LexLess(DateFields(a), DateFields(b))

\* max(dates) / min(dates) of a non-empty list: the first maximal / minimal
RECURSIVE MaxDate(_)
MaxDate(s) ==
    IF Len(s) = 1 THEN s[1]
    ELSE LET m == MaxDate(Tail(s))
         IN  IF DateLess(s[1], m) THEN m ELSE s[1]

RECURSIVE MinDate(_)
MinDate(s) ==
    IF Len(s) = 1 THEN s[1]
    ELSE LET m == MinDate(Tail(s))
         IN  IF DateLess(m, s[1]) THEN m ELSE s[1]

\* f"{date.year}-Q{(date.month-1)//3 + 1}"
QuarterLabel(d) == <<d.year, (d.month - 1) \div 3 + 1>>

(***************************************************************************)
(* The records the server holds.                                           *)
(***************************************************************************)
Drop(r, f) == [x \in DOMAIN r \ {f} |-> r[x]]

\* the repository at position k of the listing
RepoRecord(k) ==
    [name |-> k,
     stargazers_count |-> IF k % 2 = 1 THEN 5 ELSE 15,
     forks_count |-> k % 3,
     watchers_count |-> IF k % 2 = 1 THEN 5 ELSE 15,
     language |-> IF k % 3 = 0 THEN None
                  ELSE IF k % 2 = 1 THEN "Python" ELSE "Go",
     size |-> (k * k * 3) % 11,
     license |-> IF k % 2 = 0 THEN [name |-> "MIT License"] ELSE NoneDict,
     created_at |->
         <<2015 + ((k * 3) % 5), 1 + ((k * 5) % 12), k, 8, 30, 0>>,
     updated_at |->
         <<2021 + (k % 3), 1 + ((k * 7) % 12), 2 * k, 21, 15, 9>>]

\* a record as the server sends it: complete ("none"), or lacking one field
Defective(r, defect) == IF defect = "none" THEN r ELSE Drop(r, defect)

\* positions first .. first + n - 1 of the listing; the defect, if any, is
\* in the last record of the page
RepoPageBody(first, n, defect) ==
    [j \in 1..n |->
        IF j = n THEN Defective(RepoRecord(first + j - 1), defect)
        ELSE RepoRecord(first + j - 1)]

UserProfile ==
    [login |-> "octocat", name |-> "The Octocat", followers |-> 9,
     following |-> 9, public_repos |-> 8,
     created_at |-> <<2011, 1, 25, 18, 44, 36>>, blog |-> ""]

CommitAt(ts) ==
    [sha |-> "abc",
     commit |-> [author |-> [name |-> "dev", date |-> ts], message |-> "m"]]
CommitNoDate == [sha |-> "abc", commit |-> [author |-> [name |-> "dev"]]]
CommitNoAuthor == [sha |-> "abc", commit |-> [message |-> "m"]]
CommitBare == [sha |-> "abc"]

\* a commit at hour h of 2023-05-10 (a Wednesday)
CommitAtHour(h) == CommitAt(<<2023, 5, 10, h, 0, 0>>)
\* a timestamp strptime rejects
CommitBadDate == CommitAt(<<2023, 13, 10, 9, 0, 0>>)

FetchedCommits == {CommitAtHour(9)}

(***************************************************************************)
(* State.                                                                  *)
(***************************************************************************)
netVars == <<requests, resp, repo_pages>>
fetchVars == <<user_info, repos, page, repo_i, commits>>
commitAgg == <<commit_times, commit_days>>
repoAgg ==
    <<total_stars, total_forks, total_watchers, languages, repo_sizes,
      licenses>>
dateAgg == <<creation_dates, update_dates, quarters>>
outVars == <<repository_stats, analysis, result>>

Req(endpoint, repo, p, per_page) ==
    [endpoint |-> endpoint, repo |-> repo, page |-> p, per_page |-> per_page]

Init ==
    /\ pc = "get_user_info"
    /\ error = "none"
    /\ requests = <<>>
    /\ resp = [status |-> 0, body |-> <<>>]
    /\ repo_pages = <<>>
    /\ user_info = NoneDict
    /\ repos = <<>>
    /\ page = 0
    /\ repo_i = 0
    /\ commits = <<>>
    /\ commit_times = <<>>
    /\ commit_days = <<>>
    /\ total_stars = 0
    /\ total_forks = 0
    /\ total_watchers = 0
    /\ languages = <<>>
    /\ repo_sizes = <<>>
    /\ licenses = <<>>
    /\ creation_dates = <<>>
    /\ update_dates = <<>>
    /\ quarters = <<>>
    /\ repository_stats = NoneDict
    /\ analysis = NoneDict
    /\ result = NoneDict

\* an exception propagates to the caller of generate_report
Raise(kind) == error' = kind /\ pc' = "raised"

(***************************************************************************)
(* get_user_info                                                           *)
(***************************************************************************)
GetUserInfo ==
    /\ pc = "get_user_info"
    /\ \E status \in SuccessStatuses \cup FailureStatuses \cup {EmptyRepoStatus} :
        /\ requests' = Append(requests, Req("user", 0, 0, 0))
        /\ IF RaisesForStatus(status)
           THEN /\ resp' = [status |-> status, body |-> <<>>]
                /\ Raise("HTTPError")
                /\ UNCHANGED <<user_info, repos, page>>
           ELSE /\ resp' = [status |-> status, body |-> <<UserProfile>>]
                /\ user_info' = UserProfile
                /\ repos' = <<>>
                /\ page' = 1
                /\ pc' = "get_user_repos"
                /\ UNCHANGED error
    /\ UNCHANGED <<repo_pages, repo_i, commits, commitAgg, repoAgg, dateAgg,
                   outVars>>

(***************************************************************************)
(* get_user_repos: one iteration of the while loop                         *)
(***************************************************************************)
\* the bodies the server may send for the page after the records it has sent:
\* none, a short page of one record, or a full page
ServerRepoPages(defects, maxlen) ==
    {<<>>} \cup
    (IF page <= MaxRepoPages
     THEN {RepoPageBody(Len(repos) + 1, n, d) :
              n \in {1, maxlen}, d \in defects}
     ELSE {})

ReposPage(defects, maxlen) ==
    /\ pc = "get_user_repos"
    /\ requests' = Append(requests, Req("repos", 0, page, PerPage))
    /\ \E status \in SuccessStatuses \cup FailureStatuses \cup {EmptyRepoStatus} :
       \E page_repos \in IF status \in SuccessStatuses
                         THEN ServerRepoPages(defects, maxlen) ELSE {<<>>} :
        /\ resp' = [status |-> status, body |-> page_repos]
        /\ IF RaisesForStatus(status)
           THEN /\ Raise("HTTPError")
                /\ UNCHANGED <<repos, page, repo_pages>>
           ELSE /\ repo_pages' = Append(repo_pages, page_repos)
                /\ IF page_repos = <<>>
                   THEN /\ pc' = "repo_totals"
                        /\ UNCHANGED <<repos, page>>
                   ELSE /\ repos' = Extend(repos, page_repos)
                        /\ page' = page + 1
                        /\ pc' = pc
                /\ UNCHANGED error
    /\ UNCHANGED <<user_info, repo_i, commits, commitAgg, repoAgg, dateAgg,
                   outVars>>

(***************************************************************************)
(* analyze_profile: the repository aggregates                              *)
(***************************************************************************)
\* the keys read with repo[...]: a missing one raises KeyError
TotalsKeys ==
    {"stargazers_count", "forks_count", "watchers_count", "language", "size"}

LacksKey(rs, keys) == \E i \in 1..Len(rs) : \E k \in keys : k \notin DOMAIN rs[i]

Column(rs, k) == [i \in 1..Len(rs) |-> rs[i][k]]

\* `if repo['language']`: None and '' are falsy
TruthyStr(x) == x # None /\ x # ""

\* `if repo.get('license')`: absent, None and {} are falsy
HasLicense(r) == "license" \in DOMAIN r /\ ~IsNoneDict(r.license)

LicenseNames(rs) ==
    LET with == SelectSeq(rs, HasLicense)
    IN  [i \in 1..Len(with) |-> Get(GetDict(with[i], "license"), "name")]

RepoTotals ==
    /\ pc = "repo_totals"
    /\ IF LacksKey(repos, TotalsKeys)
       THEN /\ Raise("KeyError")
            /\ UNCHANGED <<repoAgg, repo_i>>
       ELSE /\ total_stars' = SumSeq(Column(repos, "stargazers_count"))
            /\ total_forks' = SumSeq(Column(repos, "forks_count"))
            /\ total_watchers' = SumSeq(Column(repos, "watchers_count"))
            /\ languages' =
                   Counter(SelectSeq(Column(repos, "language"), TruthyStr))
            /\ repo_sizes' = Column(repos, "size")
            /\ licenses' = Counter(LicenseNames(repos))
            /\ repo_i' = 1
            /\ pc' = "for_repo"
            /\ UNCHANGED error
    /\ UNCHANGED <<netVars, user_info, repos, page, commits, commitAgg,
                   dateAgg, outVars>>

(***************************************************************************)
(* analyze_profile: for repo in repos[:5]                                  *)
(***************************************************************************)
NoRepoCap(rs) == rs
FirstRepos(rs) == Take(rs, TopRepos)

ForRepo ==
    /\ pc = "for_repo"
    /\ IF repo_i > Len(FirstRepos(repos))
       THEN /\ pc' = "dates"
            /\ UNCHANGED <<error, commits, page>>
       ELSE IF "name" \notin DOMAIN repos[repo_i]
       THEN /\ Raise("KeyError")
            /\ UNCHANGED <<commits, page>>
       ELSE /\ commits' = <<>>
            /\ page' = 1
            /\ pc' = "get_repo_commits"
            /\ UNCHANGED error
    /\ UNCHANGED <<netVars, user_info, repos, repo_i, commitAgg, repoAgg,
                   dateAgg, outVars>>

(***************************************************************************)
(* get_repo_commits: one iteration of the while loop                       *)
(***************************************************************************)
ServerCommitPages(samples) ==
    {<<>>} \cup
    (IF page <= MaxCommitPages THEN {<<c>> : c \in samples} ELSE {})

\* what get_repo_commits returns on the empty-repository status
KeepFetched(fetched) == fetched
EmptyRepoResult(fetched) == <<>>

CommitsPage(samples) ==
    /\ pc = "get_repo_commits"
    /\ requests' =
           Append(requests, Req("commits", repos[repo_i].name, page, PerPage))
    /\ \E status \in SuccessStatuses \cup FailureStatuses \cup {EmptyRepoStatus} :
       \E page_commits \in IF status \in SuccessStatuses
                           THEN ServerCommitPages(samples) ELSE {<<>>} :
        /\ resp' = [status |-> status, body |-> page_commits]
        /\ IF status = EmptyRepoStatus
           THEN /\ commits' = EmptyRepoResult(commits)
                /\ pc' = "process_commits"
                /\ UNCHANGED <<error, page>>
           ELSE IF RaisesForStatus(status)
           THEN /\ Raise("HTTPError")
                /\ UNCHANGED <<commits, page>>
           ELSE /\ IF page_commits = <<>>
                   THEN /\ pc' = "process_commits"
                        /\ UNCHANGED <<commits, page>>
                   ELSE /\ commits' = Extend(commits, page_commits)
                        /\ page' = page + 1
                        /\ pc' = pc
                /\ UNCHANGED error
    /\ UNCHANGED <<repo_pages, user_info, repos, repo_i, commitAgg, repoAgg,
                   dateAgg, outVars>>

(***************************************************************************)
(* analyze_profile: for commit in commits                                  *)
(***************************************************************************)
\* commit.get('commit', {}).get('author', {}).get('date'); a falsy value
\* (None, '') is <<>>
CommitDate(c) ==
    LET author == GetDict(GetDict(c, "commit"), "author")
    IN  IF "date" \in DOMAIN author THEN author.date ELSE <<>>

RECURSIVE ScanCommits(_, _, _)
ScanCommits(cs, times, days) ==
    IF cs = <<>> THEN [raised |-> FALSE, times |-> times, days |-> days]
    ELSE LET ts == CommitDate(cs[1])
         IN  IF ts = <<>> THEN ScanCommits(Tail(cs), times, days)
             ELSE IF ~Parseable(ts)
             THEN [raised |-> TRUE, times |-> times, days |-> days]
             ELSE LET commit_date == Strptime(ts)
                  IN  ScanCommits(Tail(cs),
                                  Append(times, commit_date.hour),
                                  Append(days, Weekday(commit_date)))

ProcessCommits ==
    /\ pc = "process_commits"
    /\ LET scan == ScanCommits(commits, commit_times, commit_days)
       IN  /\ commit_times' = scan.times
           /\ commit_days' = scan.days
           /\ IF scan.raised
              THEN /\ Raise("ValueError")
                   /\ UNCHANGED repo_i
              ELSE /\ repo_i' = repo_i + 1
                   /\ pc' = "for_repo"
                   /\ UNCHANGED error
    /\ UNCHANGED <<netVars, user_info, repos, page, commits, repoAgg,
                   dateAgg, outVars>>

(***************************************************************************)
(* analyze_profile: creation_dates, update_dates, quarters                 *)
(***************************************************************************)
RECURSIVE ParseDatesSkipMissing(_, _, _)
ParseDatesSkipMissing(rs, key, dates) ==
    IF rs = <<>> THEN [raised |-> "none", dates |-> dates]
    ELSE IF key \notin DOMAIN rs[1]
    THEN ParseDatesSkipMissing(Tail(rs), key, dates)
    ELSE IF ~Parseable(rs[1][key])
    THEN [raised |-> "ValueError", dates |-> dates]
    ELSE ParseDatesSkipMissing(Tail(rs), key,
                               Append(dates, Strptime(rs[1][key])))

RECURSIVE ParseDates(_, _, _)
ParseDates(rs, key, dates) ==
    IF rs = <<>> THEN [raised |-> "none", dates |-> dates]
    ELSE IF key \notin DOMAIN rs[1]
    THEN [raised |-> "KeyError", dates |-> dates]
    ELSE IF ~Parseable(rs[1][key])
    THEN [raised |-> "ValueError", dates |-> dates]
    ELSE ParseDates(Tail(rs), key, Append(dates, Strptime(rs[1][key])))

Dates ==
    /\ pc = "dates"
    /\ LET created == ParseDates(repos, "created_at", <<>>)
           updated == ParseDates(repos, "updated_at", <<>>)
       IN  IF created.raised # "none"
           THEN /\ Raise(created.raised)
                /\ UNCHANGED dateAgg
           ELSE IF updated.raised # "none"
           THEN /\ Raise(updated.raised)
                /\ creation_dates' = created.dates
                /\ UNCHANGED <<update_dates, quarters>>
           ELSE /\ creation_dates' = created.dates
                /\ update_dates' = updated.dates
                /\ quarters' =
                       Counter([i \in 1..Len(updated.dates) |->
                                   QuarterLabel(updated.dates[i])])
                /\ pc' = "build_analysis"
                /\ UNCHANGED error
    /\ UNCHANGED <<netVars, fetchVars, commitAgg, repoAgg, outVars>>

(***************************************************************************)
(* analyze_profile: the analysis dict                                      *)
(***************************************************************************)
IsMorning(h) == 5 <= h /\ h < 12
IsAfternoon(h) == 12 <= h /\ h < 17
IsEvening(h) == 17 <= h /\ h < 22
NightFromMidnight(h) == h >= 22 \/ h < 4
IsNight(h) == h >= 22 \/ h < 5

UserInfoView ==
    [name |-> Get(user_info, "name"),
     bio |-> Get(user_info, "bio"),
     followers |-> Get(user_info, "followers"),
     following |-> Get(user_info, "following"),
     public_repos |-> Get(user_info, "public_repos"),
     account_created |-> Get(user_info, "created_at"),
     location |-> Get(user_info, "location"),
     company |-> Get(user_info, "company"),
     blog |-> Get(user_info, "blog")]

RepositoryStats ==
    [total_repos |-> Len(repos),
     total_stars |-> total_stars,
     total_forks |-> total_forks,
     total_watchers |-> total_watchers,
     top_languages |-> MostCommon(languages, TopLanguages),
     avg_stars_per_repo |->
         IF repos # <<>> THEN Frac(total_stars, Len(repos)) ELSE Zero,
     avg_repo_size |-> IF repo_sizes # <<>> THEN NpMean(repo_sizes) ELSE Zero,
     median_repo_size |->
         IF repo_sizes # <<>> THEN NpMedian(repo_sizes) ELSE Zero,
     licenses |-> MostCommon(licenses, TopLicenses)]

ActivityPatterns ==
    [newest_repo |-> StrftimeDate(MaxDate(creation_dates)),
     oldest_repo |-> StrftimeDate(MinDate(creation_dates)),
     last_update |-> StrftimeDate(MaxDate(update_dates)),
     updates_per_quarter |-> MostCommonAll(quarters),
     favorite_commit_hours |-> MostCommon(Counter(commit_times), TopHours),
     favorite_commit_days |-> MostCommonAll(Counter(commit_days)),
     commit_frequency |->
         [morning |-> Len(SelectSeq(commit_times, IsMorning)),
          afternoon |-> Len(SelectSeq(commit_times, IsAfternoon)),
          evening |-> Len(SelectSeq(commit_times, IsEvening)),
          night |-> Len(SelectSeq(commit_times, IsNight))]]

\* the exception max() and min() raise on an empty sequence
EmptyExtremaError == "ValueError"

BuildAnalysis ==
    /\ pc = "build_analysis"
    /\ repository_stats' = RepositoryStats
    /\ IF creation_dates = <<>> \/ update_dates = <<>>
       THEN /\ Raise(EmptyExtremaError)
            /\ UNCHANGED analysis
       ELSE /\ analysis' =
                   [user_info |-> UserInfoView,
                    repository_stats |-> RepositoryStats,
                    activity_patterns |-> ActivityPatterns]
            /\ pc' = "generate_visualizations"
            /\ UNCHANGED error
    /\ UNCHANGED <<netVars, fetchVars, commitAgg, repoAgg, dateAgg, result>>

(***************************************************************************)
(* generate_report: generate_visualizations and the text report            *)
(***************************************************************************)
\* the charts in the order they are drawn, with the key each one reads
Charts ==
    <<[id |-> "language_distribution", section |-> "repository_stats",
       key |-> "top_languages"],
      [id |-> "commit_time_distribution", section |-> "activity_patterns",
       key |-> "commit_frequency"],
      [id |-> "quarterly_activity", section |-> "activity_patterns",
       key |-> "updates_per_quarter"],
      [id |-> "repo_size_distribution", section |-> "repository_stats",
       key |-> "repos"]>>

RECURSIVE DrawCharts(_, _, _)
DrawCharts(a, charts, ids) ==
    IF charts = <<>> THEN [raised |-> "none", ids |-> ids]
    ELSE IF charts[1].key \notin DOMAIN a[charts[1].section]
    THEN [raised |-> "KeyError", ids |-> ids]
    ELSE DrawCharts(a, Tail(charts), ids \cup {charts[1].id})

GenerateVisualizations(a) ==
    LET drawn == DrawCharts(a, Charts, {})
    IN  [raised |-> drawn.raised,
         plots |-> [id \in drawn.ids |-> "base64_png"]]

\* the methods class GitHubProfileAnalyzer defines
ClassMethods ==
    {"__init__", "get_user_info", "get_user_repos", "get_repo_commits",
     "analyze_profile", "generate_visualizations", "_fig_to_base64",
     "generate_report"}

\* the values the report template formats, in order
ReportText(a) ==
    <<a.user_info, Drop(Drop(a.repository_stats, "top_languages"), "licenses"),
      a.repository_stats.top_languages, a.repository_stats.licenses,
      a.activity_patterns>>

GenerateReport ==
    /\ pc = "generate_visualizations"
    /\ LET viz == GenerateVisualizations(analysis)
       IN  IF viz.raised # "none"
           THEN /\ Raise(viz.raised)
                /\ UNCHANGED result
           ELSE IF "_format_dict" \notin ClassMethods
           THEN /\ Raise("AttributeError")
                /\ UNCHANGED result
           ELSE /\ result' = [report |-> ReportText(analysis),
                              visualizations |-> viz.plots]
                /\ pc' = "done"
                /\ UNCHANGED error
    /\ UNCHANGED <<netVars, fetchVars, commitAgg, repoAgg, dateAgg,
                   repository_stats, analysis>>

(***************************************************************************)
(* The run of generate_report against a server sending complete records.   *)
(***************************************************************************)
Next ==
    \/ GetUserInfo
    \/ ReposPage({"none"}, MaxPageLen)
    \/ RepoTotals
    \/ ForRepo
    \/ CommitsPage(FetchedCommits)
    \/ ProcessCommits
    \/ Dates
    \/ BuildAnalysis
    \/ GenerateReport

Spec == Init /\ [][Next]_vars

(***************************************************************************)
(* The same run against a server that may omit a field of a record.        *)
(***************************************************************************)
RepoDefects ==
    {"none", "stargazers_count", "forks_count", "watchers_count", "language",
     "size", "created_at", "updated_at"}

NextMalformed ==
    \/ GetUserInfo
    \/ ReposPage(RepoDefects, 1)
    \/ RepoTotals
    \/ ForRepo
    \/ CommitsPage(FetchedCommits \cup {CommitBadDate})
    \/ ProcessCommits
    \/ Dates
    \/ BuildAnalysis
    \/ GenerateReport

SpecMalformed == Init /\ [][NextMalformed]_vars

(***************************************************************************)
(* The aggregation applied to bounded inputs: analyze_profile after the    *)
(* repository list has been fetched (any list of StatRepos), and after     *)
(* the commits of its only repository have been fetched (any list of       *)
(* commits over all hours, or a longer one over TieHours).                 *)
(***************************************************************************)
SeqsUpTo(S, n) == UNION {[1..k -> S] : k \in 0..n}

StatRepo(stars, size, lang, year) ==
    [RepoRecord(1) EXCEPT !.stargazers_count = stars, !.size = size,
                          !.language = lang, !.created_at[1] = year]

StatRepos ==
    {StatRepo(5, 40, "Python", 2019), StatRepo(15, 7, "Go", 2016),
     StatRepo(0, 12, None, 2022), StatRepo(15, 1, "Python", 2016)}

AllHours == 0..23
TieHours == {3, 9, 14, 22}

HourCommits ==
    {CommitAtHour(h) : h \in AllHours}
        \cup {CommitNoDate, CommitNoAuthor, CommitBare, CommitBadDate}

CommitInputs ==
    SeqsUpTo(HourCommits, MaxHourCommits)
        \cup SeqsUpTo({CommitAtHour(h) : h \in TieHours}, MaxTopCommits)

\* the requests get_user_info and get_user_repos made to fetch rs on one page
FetchRequests(rs) ==
    <<Req("user", 0, 0, 0)>>
        \o [p \in 1..(IF rs = <<>> THEN 1 ELSE 2) |-> Req("repos", 0, p, PerPage)]

Fetched(rs) ==
    /\ error = "none"
    /\ requests = FetchRequests(rs)
    /\ repo_pages = IF rs = <<>> THEN << <<>> >> ELSE <<rs, <<>> >>
    /\ user_info = UserProfile
    /\ repos = rs
    /\ commit_times = <<>>
    /\ commit_days = <<>>
    /\ creation_dates = <<>>
    /\ update_dates = <<>>
    /\ quarters = <<>>
    /\ repository_stats = NoneDict
    /\ analysis = NoneDict
    /\ result = NoneDict

InitAggregate ==
    \/ \E rs \in SeqsUpTo(StatRepos, MaxStatRepos) :
        /\ Fetched(rs)
        /\ pc = "repo_totals"
        /\ resp = [status |-> 200, body |-> <<>>]
        /\ page = IF rs = <<>> THEN 1 ELSE 2
        /\ repo_i = 0
        /\ commits = <<>>
        /\ total_stars = 0
        /\ total_forks = 0
        /\ total_watchers = 0
        /\ languages = <<>>
        /\ repo_sizes = <<>>
        /\ licenses = <<>>
    \/ \E cs \in CommitInputs :
        LET rs == <<RepoRecord(1)>>
        IN  /\ Fetched(rs)
            /\ pc = "process_commits"
            /\ resp = [status |-> 200, body |-> <<>>]
            /\ page = 2
            /\ repo_i = 1
            /\ commits = cs
            /\ total_stars = SumSeq(Column(rs, "stargazers_count"))
            /\ total_forks = SumSeq(Column(rs, "forks_count"))
            /\ total_watchers = SumSeq(Column(rs, "watchers_count"))
            /\ languages =
                   Counter(SelectSeq(Column(rs, "language"), TruthyStr))
            /\ repo_sizes = Column(rs, "size")
            /\ licenses = Counter(LicenseNames(rs))

NextAggregate ==
    \/ RepoTotals
    \/ ForRepo
    \/ CommitsPage({})
    \/ ProcessCommits
    \/ Dates
    \/ BuildAnalysis
    \/ GenerateReport

SpecAggregate == InitAggregate /\ [][NextAggregate]_vars

(***************************************************************************)
(* Properties.                                                             *)
(***************************************************************************)
IsReposRequest(r) == r.endpoint = "repos"
IsCommitsRequest(r) == r.endpoint = "commits"
RepoRequests == SelectSeq(requests, IsReposRequest)
CommitRequests == SelectSeq(requests, IsCommitsRequest)

RECURSIVE Flatten(_)
Flatten(ss) == IF ss = <<>> THEN <<>> ELSE ss[1] \o Flatten(Tail(ss))

\* get_user_repos has returned its list
ReposReturned ==
    /\ pc \notin {"get_user_info", "get_user_repos"}
    /\ repo_pages # <<>>
    /\ repo_pages[Len(repo_pages)] = <<>>

\* the run of generate_report is over
Ended == pc \in {"raised", "done"}

\* the last response is a failure: a 4xx / 5xx status other than the 409 the
\* commits endpoint tolerates
LastRequestFailed ==
    /\ requests # <<>>
    /\ resp.status >= 400
    /\ ~(resp.status = 409 /\ requests[Len(requests)].endpoint = "commits")

\* C1: get_user_repos requests pages 1, 2, 3, ... of size 100 in this order,
\* issues no request after the first empty page, and its list is the
\* concatenation, in page order, of the non-empty pages received before it.
C1_Pagination ==
    /\ \A i \in 1..Len(RepoRequests) :
          RepoRequests[i].page = i /\ RepoRequests[i].per_page = 100
    /\ \A i \in 1..Len(repo_pages) :
          repo_pages[i] = <<>> =>
              /\ i = Len(repo_pages)
              /\ Len(RepoRequests) = i
              /\ pc # "get_user_repos"
    /\ repos = Flatten(repo_pages)
    /\ pc \in {"repo_totals", "for_repo", "get_repo_commits",
               "process_commits", "dates", "build_analysis",
               "generate_visualizations", "done"} => ReposReturned

\* C1 witness: two non-empty pages (one record, then three) and the empty
\* third page have been received, and the list of four is returned.
C1_Witness ==
    /\ pc = "repo_totals"
    /\ Len(repo_pages) = 3
    /\ Len(repo_pages[1]) = 1
    /\ Len(repo_pages[2]) = 3
    /\ Len(RepoRequests) = 3
    /\ [i \in 1..4 |-> repos[i].name] = <<1, 2, 3, 4>>

\* C2: when the commits endpoint answers a page request with 409, on
\* whichever page, get_repo_commits returns the empty list and raises
\* nothing, and the loop goes on to the next repository without adding a
\* commit.
C2_EmptyRepository ==
    /\ [][(requests' # requests /\ resp'.status = 409
              /\ requests'[Len(requests')].endpoint = "commits")
            => (commits' = <<>> /\ error' = "none"
                   /\ pc' = "process_commits")]_vars
    /\ [][(pc = "process_commits" /\ resp.status = 409)
            => (error' = "none" /\ pc' = "for_repo"
                   /\ repo_i' = repo_i + 1
                   /\ commit_times' = commit_times)]_vars

\* C2 witness: page 1 of the first repository held a commit, page 2 was
\* answered with 409, no commit was counted, and the second repository is
\* about to be fetched.
C2_Witness ==
    /\ pc = "get_repo_commits"
    /\ repo_i = 2
    /\ resp.status = 409
    /\ requests[Len(requests)] = Req("commits", 1, 2, 100)
    /\ commit_times = <<>>
    /\ error = "none"

\* C3: once a request gets a failure status the run has ended in an
\* HTTPError, no analysis and no report exist, and no request follows (none
\* is ever issued twice).
C3_FailureEndsRun ==
    /\ [](LastRequestFailed =>
            /\ pc = "raised"
            /\ error = "HTTPError"
            /\ IsNoneDict(analysis)
            /\ IsNoneDict(result))
    /\ [](\A i, j \in 1..Len(requests) : requests[i] = requests[j] => i = j)
    /\ [][LastRequestFailed => requests' = requests]_vars

\* C3 witness: the second commit page of the third repository fails.
C3_Witness ==
    /\ LastRequestFailed
    /\ pc = "raised"
    /\ requests[Len(requests)] = Req("commits", 3, 2, 100)
    /\ commit_times # <<>>

\* the position in repos of the repository a commit request names
Position(r) == CHOOSE k \in 1..Len(repos) : repos[k].name = r.repo

\* C10: commit requests come after the repository pagination has finished,
\* name only the first min(5, n) repositories of the list, and walk them in
\* list order: page 1 of the first, then either the next page of the same
\* repository or page 1 of the next one.
C10_CommitRequestOrder ==
    LET cr == CommitRequests
        n == Len(repos)
        limit == IF n < 5 THEN n ELSE 5
    IN  /\ \A i, j \in 1..Len(requests) :
              (i < j /\ requests[i].endpoint = "commits")
                  => requests[j].endpoint = "commits"
        /\ cr # <<>> => ReposReturned
        /\ \A i \in 1..Len(cr) :
              /\ \E k \in 1..limit : repos[k].name = cr[i].repo
              /\ Position(cr[i]) <= limit
        /\ cr # <<>> => (Position(cr[1]) = 1 /\ cr[1].page = 1)
        /\ \A i \in 1..(Len(cr) - 1) :
              \/ /\ Position(cr[i + 1]) = Position(cr[i])
                 /\ cr[i + 1].page = cr[i].page + 1
              \/ /\ Position(cr[i + 1]) = Position(cr[i]) + 1
                 /\ cr[i + 1].page = 1
        /\ pc \in {"dates", "build_analysis", "generate_visualizations", "done"}
              => \A k \in 1..limit : \E i \in 1..Len(cr) : Position(cr[i]) = k

\* C10 witness: six repositories were listed, the commit loop is over, the
\* first five were fetched (the first one over two pages) and the sixth not.
C10_Witness ==
    /\ pc = "dates"
    /\ Len(repos) = 6
    /\ Len(CommitRequests) = 6
    /\ CommitRequests[2] = Req("commits", 1, 2, 100)
    /\ CommitRequests[6] = Req("commits", 5, 1, 100)

\* C4: with an empty repository list the extrema fail with the dedicated
\* EmptyDataError.
C4_EmptyDataError ==
    (pc = "raised" /\ repos = <<>> /\ ~IsNoneDict(repository_stats))
        => error = "EmptyDataError"

\* the sum of field k over the records rs[1..n]
RECURSIVE FieldSum(_, _, _)
FieldSum(rs, k, n) == IF n = 0 THEN 0 ELSE FieldSum(rs, k, n - 1) + rs[n][k]

CountBelow(s, v) == Cardinality({i \in 1..Len(s) : s[i] < v})
CountUpTo(s, v) == Cardinality({i \in 1..Len(s) : s[i] <= v})

\* the k-th smallest value of s
KthSmallest(s, k) ==
    CHOOSE v \in {s[i] : i \in 1..Len(s)} :
        CountBelow(s, v) < k /\ k <= CountUpTo(s, v)

\* the fraction q equals a / b
IsQuotient(q, a, b) == q.den > 0 /\ q.num * b = a * q.den

\* C5: total_stars is the sum of the star counts; the two averages and the
\* median are 0 for the empty list, and otherwise the exact mean of the
\* stars, the exact mean of the sizes and the exact median of the sizes.
C5_RepoStatistics ==
    ~IsNoneDict(repository_stats) =>
        LET st == repository_stats
            n == Len(repos)
            sizes == [i \in 1..n |-> repos[i].size]
        IN  /\ st.total_stars = FieldSum(repos, "stargazers_count", n)
            /\ n = 0 =>
                  /\ st.avg_stars_per_repo.num = 0
                  /\ st.avg_repo_size.num = 0
                  /\ st.median_repo_size.num = 0
            /\ n > 0 =>
                  /\ IsQuotient(st.avg_stars_per_repo,
                                FieldSum(repos, "stargazers_count", n), n)
                  /\ IsQuotient(st.avg_repo_size, FieldSum(repos, "size", n), n)
                  /\ IF n % 2 = 1
                     THEN IsQuotient(st.median_repo_size,
                                     KthSmallest(sizes, (n + 1) \div 2), 1)
                     ELSE IsQuotient(st.median_repo_size,
                                     KthSmallest(sizes, n \div 2)
                                         + KthSmallest(sizes, n \div 2 + 1), 2)

\* C5 witness: stars 5 and 15 give total 20 and average 10; sizes 40 and 7
\* give mean 47/2 and median 47/2.
C5_Witness ==
    /\ ~IsNoneDict(repository_stats)
    /\ Len(repos) = 2
    /\ repos[1].stargazers_count = 5 /\ repos[2].stargazers_count = 15
    /\ repos[1].size = 40 /\ repos[2].size = 7
    /\ repository_stats.total_stars = 20
    /\ repository_stats.avg_stars_per_repo = [num |-> 10, den |-> 1]
    /\ repository_stats.median_repo_size = [num |-> 47, den |-> 2]

\* a commit record carries an author timestamp
CarriesTimestamp(c) ==
    /\ "commit" \in DOMAIN c
    /\ "author" \in DOMAIN c.commit
    /\ "date" \in DOMAIN c.commit.author

InRange(h, lo, hi) == lo <= h /\ h < hi
HoursIn(lo, hi) ==
    Cardinality({i \in 1..Len(commit_times) : InRange(commit_times[i], lo, hi)})

\* C6: every hour 0..23 lies in exactly one of morning [5,12), afternoon
\* [12,17), evening [17,22), night [22,24) + [0,5); each bucket counts the
\* commit hours in its range, and the four counts add up to the number of
\* fetched commits that carry a (parseable) author timestamp.
C6_TimeOfDayBuckets ==
    ~IsNoneDict(analysis) =>
        LET cf == analysis.activity_patterns.commit_frequency
            dated == {i \in 1..Len(commits) : CarriesTimestamp(commits[i])}
        IN  /\ \A i \in 1..Len(commit_times) : commit_times[i] \in 0..23
            /\ cf.morning = HoursIn(5, 12)
            /\ cf.afternoon = HoursIn(12, 17)
            /\ cf.evening = HoursIn(17, 22)
            /\ cf.night = HoursIn(22, 24) + HoursIn(0, 5)
            /\ cf.morning + cf.afternoon + cf.evening + cf.night
                   = Cardinality(dated)
            /\ \A i \in dated : Parseable(commits[i].commit.author.date)

\* C6 witness: of two commits, one at hour 4 and one without a timestamp,
\* only the first is counted, as a night commit.
C6_Witness ==
    /\ ~IsNoneDict(analysis)
    /\ commits = <<CommitAtHour(4), CommitNoDate>>
    /\ analysis.activity_patterns.commit_frequency
           = [morning |-> 0, afternoon |-> 0, evening |-> 0, night |-> 1]

\* C7: for every analysis analyze_profile returns, generate_visualizations
\* returns the four charts and generate_report returns the report with them.
C7_FourCharts ==
    (~IsNoneDict(analysis) /\ Ended) =>
        /\ pc = "done"
        /\ error = "none"
        /\ DOMAIN result.visualizations
               = {"language_distribution", "commit_time_distribution",
                  "quarterly_activity", "repo_size_distribution"}

Occurrences(s, h) == Cardinality({i \in 1..Len(s) : s[i] = h})
FirstSeen(s, h) == CHOOSE i \in 1..Len(s) : s[i] = h /\ \A j \in 1..(i - 1) : s[j] # h

\* hour g ranks before hour h: more commits, or as many and seen first
RanksBefore(s, g, h) ==
    \/ Occurrences(s, g) > Occurrences(s, h)
    \/ /\ Occurrences(s, g) = Occurrences(s, h)
       /\ FirstSeen(s, g) < FirstSeen(s, h)

\* C8: favorite_commit_hours lists min(3, number of distinct hours) pairs
\* (hour, count), each before every hour that ranks after it, and no hour
\* left out ranks before a listed one; hours 9,9,14,9,22 give
\* (9,3),(14,1),(22,1).
C8_FavoriteHours ==
    ~IsNoneDict(analysis) =>
        LET fav == analysis.activity_patterns.favorite_commit_hours
            s == commit_times
            hours == {s[i] : i \in 1..Len(s)}
            listed == {fav[i].key : i \in 1..Len(fav)}
        IN  /\ Len(fav) = (IF Cardinality(hours) < 3 THEN Cardinality(hours) ELSE 3)
            /\ listed \subseteq hours
            /\ \A i \in 1..Len(fav) : fav[i].count = Occurrences(s, fav[i].key)
            /\ \A i, j \in 1..Len(fav) :
                  i < j => RanksBefore(s, fav[i].key, fav[j].key)
            /\ \A h \in hours \ listed :
                  \A g \in listed : RanksBefore(s, g, h)
            /\ s = <<9, 9, 14, 9, 22>> =>
                  fav = <<[key |-> 9, count |-> 3], [key |-> 14, count |-> 1],
                          [key |-> 22, count |-> 1]>>

\* C8 witness: the hours 22,14,9,3,9: 9 leads with two commits, and of the
\* three hours with one commit the first two seen, 22 and 14, are listed.
C8_Witness ==
    /\ ~IsNoneDict(analysis)
    /\ commit_times = <<22, 14, 9, 3, 9>>
    /\ analysis.activity_patterns.favorite_commit_hours
           = <<[key |-> 9, count |-> 2], [key |-> 22, count |-> 1],
               [key |-> 14, count |-> 1]>>

\* the fields of a repository record the aggregation needs
AggregationFields ==
    {"stargazers_count", "forks_count", "watchers_count", "language", "size",
     "created_at", "updated_at"}

====
